---- MODULE Spec2Model ----
(***************************************************************************)
(* Job lifecycle of the AI content backend: the Job collection, the job    *)
(* submission route (POST /ai), the job query route (GET /jobs/:id) and    *)
(* the jobs runner (processOne) with its claim, retry loop and terminal    *)
(* writes, as run by several worker instances against one store.           *)
(***************************************************************************)
EXTENDS Integers, Sequences, FiniteSets, TLC

\* ------------------------------------------------------------------ bounds
MaxJobs == 2        \* jobs ever submitted
MaxTok == 1         \* largest totalTokenCount a provider call reports
MaxLen == 4         \* longest provider text, in tokens
MaxItems == 2       \* longest list in a parsed provider response
MaxScore == 150                \* scores tried run from -MaxScore to MaxScore

\* ------------------------------------------------------- program constants
maxAttempts == 3               \* Number(process.env.JOB_MAX_ATTEMPTS || 3)
DEFAULT_RETRY_ATTEMPTS == 3    \* Number(AI_RETRY_ATTEMPTS || 3)
DEFAULT_RETRY_BASE_MS == 400   \* Number(AI_RETRY_BASE_MS || 400)
DEFAULT_TIMEOUT_MS == 30000    \* Number(AI_TIMEOUT_MS || 30000)
MAX_RAW_SNIPPET == 500

ALLOWED_TYPES == {"KEYWORDS", "ARTICLE", "SEO", "META", "IMAGE", "HASHTAGS"}
NeedsArticle == {"SEO", "META", "IMAGE", "HASHTAGS"}
Instances == {"w1", "w2"}      \* INSTANCE_ID of each runner process
Users == {"A", "B"}            \* principals the auth middleware resolves
Elapsed == {0, 1}              \* clock ticks between two readings of the clock

\* payload: which of the fields the runner reads are present (truthy)
Payloads == [title : BOOLEAN, content : BOOLEAN]

\* A string is the sequence of its characters; <<>> is also the absent one.
\* An error object, by the fields toJobError reads: NoErr is null, Error(m)
\* is new Error(m), whose stack is never empty.
NoErr == [message |-> "none", code |-> "none", rawText |-> <<>>, stack |-> <<>>,
          parseError |-> "none"]
Error(message) == [NoErr EXCEPT !.message = message, !.stack = <<"s">>]
\* a job with no error field
NoError == [type |-> "none", code |-> "none", provider |-> "none", message |-> "none",
            rawSnippet |-> <<>>, parseError |-> "none"]
NoCall == [op |-> "none"]
Handlers == {"h1", "h2"}       \* auth requests that may be in service at once
Idle == [pc |-> "idle"]

VARIABLES
  jobs,      \* the Job collection: sequence of documents, _id = index
  now,       \* wall clock, as last read (createdAt, claimedAt)
  busy,      \* busy[i]: the module-level flag of runner i
  pc,        \* pc[i]: where runner i's processOne is suspended
  job,       \* job[i]: _id of the claimed document (0 = null)
  a,         \* a[i]: loop variable of the retry loop
  lastErr,   \* lastErr[i]: NoErr or the last caught error
  gen,       \* gen[i]: tokensUsed returned by the last adapter call
  calls,     \* calls[i]: adapter invocations made in runner i's tick
  spent,     \* spent[i]: tokens reported by the provider calls of the tick
  waits,     \* waits[i]: backoff waits made in the tick
  http,      \* the last HTTP response sent
  proc,      \* proc[i]: "up", "closed" (store connection closed), "exited",
             \* or "rejected" (ended by an unhandled rejection of processOne)
  io,        \* the last call of an adapter function made on its own: input, output
  users,     \* the User collection: sequence of documents, id = index
  reqs       \* reqs[r]: the auth request handler r is serving, and its answer

vars == <<jobs, now, busy, pc, job, a, lastErr, gen, calls, spent, waits, http, proc, io, users, reqs>>

Ids == DOMAIN jobs

\* ------------------------------------------------------------ Job documents
\* Job.create in POST /ai: the fields the route gives, the schema defaults
\* for the rest (result, error, model, claimedBy, claimedAt start absent).
NewJob(userId, type, payload) ==
  [ userId |-> userId, type |-> type, status |-> "PENDING", payload |-> payload,
    result |-> "none", error |-> NoError, model |-> "none",
    tokensUsed |-> 0, attempt |-> 0,
    claimedBy |-> "none", claimedAt |-> 0, createdAt |-> now ]

\* ---------------------------------------------------- provider adapter
\* How one model.generateContent call ends, as isRetriableError reads it:
\* message is the marker the lowered text of err.message contains ("" for
\* none of the three), code is err.status || err.code || err.statusCode
\* (0 for none of them set).
Markers == {"etimedout", "econnreset", "abort"}
Codes == {0, 400, 429, 500, 503}
Ok == [ok |-> TRUE, message |-> "", code |-> 0]
SdkErrors == [ok : {FALSE}, message : Markers \cup {""}, code : Codes]
Transient == [ok |-> FALSE, message |-> "", code |-> 503]
Fatal == [ok |-> FALSE, message |-> "", code |-> 400]
SdkOutcomes == {Ok, Transient, Fatal}         \* the ones the runner is run against

\* Provider text, as a sequence of tokens: "F" the marker ```json, "E" the
\* marker ```, "L" and "R" the braces, "k" the text of a member of an object,
\* "n" the text of a JSON value that is no object (an array, a number),
\* "w" a word of prose.
Tokens == {"F", "E", "L", "R", "k", "n", "w"}
Texts == UNION {[1..l -> Tokens] : l \in 0..MaxLen}
JsonText == <<"L", "k", "R">>
LongText == [k \in 1..(MAX_RAW_SNIPPET + 1) |-> "w"]
\* a JSON answer, an answer in prose, an empty answer, prose longer than
\* the snippet kept of it
TextKinds == {JsonText, <<"w">>, <<>>, LongText}

\* How the provider behaves during one typed operation: the outcome of each
\* generateContent call that may be made, and the text and totalTokenCount
\* of the response when a call succeeds.
Behaviours ==
  [outs : [1..DEFAULT_RETRY_ATTEMPTS -> SdkOutcomes], t : 0..MaxTok, text : TextKinds]
Always(o) == [k \in 1..DEFAULT_RETRY_ATTEMPTS |-> o]
\* a sample: the first call answers with JSON and MaxTok tokens, or every
\* call fails with a transient error
FewBehaviours ==
  { [outs |-> Always(Ok), t |-> MaxTok, text |-> JsonText],
    [outs |-> Always(Transient), t |-> 0, text |-> JsonText] }

\* (variant of isRetriableError: the status code alone)
isRetriableErrorByCode(err) == err.code = 429 \/ err.code >= 500
isRetriableError(err) ==
  \/ err.message \in Markers
  \/ err.code = 429
  \/ err.code >= 500

\* sleep(baseMs * Math.pow(2, i)) after the failure of call i (from 0)
Backoff(baseMs, i) == baseMs * 2^i

\* withRetry: call fn up to `attempts` times; outs[k] is how the k-th call
\* ends. n counts the calls made, delays lists the sleeps between them.
RECURSIVE withRetry(_, _, _)
withRetry(outs, attempts, i) ==
  LET delays == [k \in 1..i |-> Backoff(DEFAULT_RETRY_BASE_MS, k - 1)]
  IN  IF outs[i + 1].ok
        THEN [ok |-> TRUE, err |-> Ok, n |-> i + 1, delays |-> delays]
        ELSE IF i = attempts - 1 \/ ~isRetriableError(outs[i + 1])
          THEN [ok |-> FALSE, err |-> outs[i + 1], n |-> i + 1, delays |-> delays]
          ELSE withRetry(outs, attempts, i + 1)

\* What the runner's error record keeps of a provider error.
Cause(err) == IF isRetriableError(err) THEN "transient" ELSE "fatal"

\* (variant of generateText: exec is called without withRetry)
generateTextOnce(outs, t) ==
  LET r == withRetry(outs, 1, 0)
  IN  [ok |-> r.ok, err |-> IF r.ok THEN NoErr ELSE Error(Cause(r.err)), sdkCalls |-> r.n,
       transients |-> IF ~r.ok /\ isRetriableError(r.err) THEN r.n ELSE r.n - 1,
       tokensUsed |-> IF r.ok THEN t ELSE 0]

\* generateText: the provider call under withRetry; tokensUsed of the
\* response.  sdkCalls: the generateContent calls made; transients: those of
\* them that ended in a transient error (all but the last, or all).
generateText(outs, t) ==
  LET r == withRetry(outs, DEFAULT_RETRY_ATTEMPTS, 0)
  IN  [ok |-> r.ok, err |-> IF r.ok THEN NoErr ELSE Error(Cause(r.err)), sdkCalls |-> r.n,
       transients |-> IF ~r.ok /\ isRetriableError(r.err) THEN r.n ELSE r.n - 1,
       tokensUsed |-> IF r.ok THEN t ELSE 0]

\* Braces open after the first i tokens of s.
Depth(s, i) ==
  Cardinality({x \in 1..i : s[x] = "L"}) - Cardinality({x \in 1..i : s[x] = "R"})

\* s is the text of one JSON object: braces that balance around members and
\* nested objects.
IsObject(s) ==
  /\ Len(s) >= 2 /\ s[1] = "L"
  /\ \A x \in 1..Len(s) : s[x] \in {"L", "R", "k"}
  /\ Depth(s, Len(s)) = 0
  /\ \A x \in 1..(Len(s) - 1) : Depth(s, x) > 0

\* JSON.parse: the value, or a SyntaxError.
JSONparse(s) ==
  IF s = <<"n">> \/ IsObject(s)
    THEN [ok |-> TRUE, data |-> s]
    ELSE [ok |-> FALSE, message |-> "SyntaxError"]

\* text.trim().replace(/^```json\s*/i, '').replace(/\s*```$/, '')
StripFence(text) ==
  LET t == IF Len(text) > 0 /\ text[1] = "F" THEN Tail(text) ELSE text
  IN  IF Len(t) > 0 /\ t[Len(t)] = "E" THEN SubSeq(t, 1, Len(t) - 1) ELSE t

\* text.match(/\{[\s\S]*\}/): from the first "{" to the last "}" after it,
\* or <<>> for no match.
BraceMatch(text) ==
  LET ls == {x \in 1..Len(text) : text[x] = "L"}
      rs == {x \in 1..Len(text) : text[x] = "R"}
  IN  IF ls = {} \/ rs = {} THEN <<>>
      ELSE LET first == CHOOSE x \in ls : \A y \in ls : x <= y
               last == CHOOSE x \in rs : \A y \in rs : y <= x
           IN  IF first < last THEN SubSeq(text, first, last) ELSE <<>>

\* parseJSONResponse, in full: the data, or the JSON_PARSE_FAILED error with
\* rawText and the message of the first parse error.
ParseText(text) ==
  LET direct == JSONparse(StripFence(text))
      found == BraceMatch(text)
      failed == [ok |-> FALSE, message |-> "JSON_PARSE_FAILED",
                 rawText |-> text, parseError |-> "SyntaxError"]
  IN  IF direct.ok THEN direct
      ELSE IF found # <<>> /\ JSONparse(found).ok THEN JSONparse(found)
      ELSE failed

\* parseJSONResponse on the texts the runner's provider returns.
ParsedKinds == [text \in TextKinds |-> ParseText(text)]

\* parseJSONResponse as the typed operations see it: no error, or the error.
parseJSONResponse(text) ==
  LET r == ParsedKinds[text]
  IN  IF r.ok THEN NoErr
      ELSE [Error(r.message) EXCEPT !.rawText = r.rawText, !.parseError = r.parseError]

\* A typed operation (generateKeywords, ..., generateHashtags): generateText,
\* then parseJSONResponse; returns {result, tokensUsed, model} or throws.
\* billed: the tokens the provider call reported, whatever happens after it.
generate(outs, t, text) ==
  LET g == generateText(outs, t)
      e == IF g.ok THEN parseJSONResponse(text) ELSE g.err
  IN  [ok |-> e = NoErr, err |-> e, tokensUsed |-> IF e = NoErr THEN g.tokensUsed ELSE 0,
       billed |-> g.tokensUsed, sdkCalls |-> g.sdkCalls, transients |-> g.transients]

\* ------------------------------------------------------------- process
\* The process of runner i is running; its store connection is open.
Alive(i) == proc[i] \notin {"exited", "rejected"}
Connected(i) == proc[i] = "up"

\* ------------------------------------------------------------- jobs runner
\* (variant of slice: the whole string)
sliceWhole(raw, n) == raw

\* raw.slice(0, n)
slice(raw, n) == SubSeq(raw, 1, IF Len(raw) < n THEN Len(raw) ELSE n)

\* (variant of toJobError: type, code, provider and message only)
toJobErrorPlain(err, type) ==
  [type |-> type,
   code |-> IF err.code # "none" THEN err.code ELSE "AI_CALL_FAILED",
   provider |-> "gemini",
   message |-> err.message,
   rawSnippet |-> <<>>,
   parseError |-> "none"]

\* toJobError(err, type): the error record written to the job.  raw is
\* err.rawText || err.stack || "" (err.raw and err.response.data are set by
\* no error of the adapter or the runner).
toJobError(err, type) ==
  LET raw == IF err.rawText # <<>> THEN err.rawText ELSE err.stack
  IN  [type |-> type,
       code |-> IF err.code # "none" THEN err.code ELSE "AI_CALL_FAILED",
       provider |-> "gemini",
       message |-> err.message,
       rawSnippet |-> slice(raw, MAX_RAW_SNIPPET),
       parseError |-> err.parseError]

\* (variants of ClaimFilter: the type condition alone; the status condition
\* put inside the first branch of $or only)
ClaimFilterTypeOnly(doc, i) == doc.type \in ALLOWED_TYPES
ClaimFilterOwn(doc, i) ==
  /\ doc.type \in ALLOWED_TYPES
  /\ ((doc.status = "PENDING" /\ doc.claimedBy = "none") \/ doc.claimedBy = i)

\* (variant of ClaimFilter: no condition on claimedBy)
ClaimFilterAnyOwner(doc, i) ==
  /\ doc.status = "PENDING"
  /\ doc.type \in ALLOWED_TYPES

\* The filter of the claim's findOneAndUpdate.
ClaimFilter(doc, i) ==
  /\ doc.status = "PENDING"
  /\ doc.type \in ALLOWED_TYPES
  /\ (doc.claimedBy = "none" \/ doc.claimedBy = i)

\* (variant of ClaimOrder: no sort)
ClaimOrderNone(S) == S

\* (variant of ClaimOrder: sort { createdAt: -1 })
ClaimOrderNewest(S) == {j \in S : \A k \in S : jobs[j].createdAt >= jobs[k].createdAt}

\* sort: { createdAt: 1 }: the matching documents no other match precedes.
ClaimOrder(S) == {j \in S : \A k \in S : jobs[j].createdAt <= jobs[k].createdAt}

Candidates(i) == ClaimOrder({j \in Ids : ClaimFilter(jobs[j], i)})

\* (variant of PayloadMissing: && for ||)
PayloadMissingBoth(doc) ==
  doc.type \in {"SEO", "META", "IMAGE", "HASHTAGS"}
    /\ (~doc.payload.title /\ ~doc.payload.content)

\* The title/content check of the SEO, META, IMAGE and HASHTAGS branches.
PayloadMissing(doc) ==
  doc.type \in NeedsArticle /\ (~doc.payload.title \/ ~doc.payload.content)

\* (variant of LoopTest: <= for <)
LoopTestInclusive(n) == n <= maxAttempts

\* The test of the retry loop: a < maxAttempts.
LoopTest(n) == n < maxAttempts

\* (variant of Finally: busy is left as it is)
FinallyKept(b) == b

\* busy = false
Finally(b) == FALSE

\* finally { busy = false }: the tick is over, its locals are gone.
Release(i) ==
  /\ busy' = [busy EXCEPT ![i] = Finally(@)]
  /\ pc' = [pc EXCEPT ![i] = "idle"]
  /\ job' = [job EXCEPT ![i] = 0]
  /\ a' = [a EXCEPT ![i] = 0]
  /\ lastErr' = [lastErr EXCEPT ![i] = NoErr]
  /\ gen' = [gen EXCEPT ![i] = 0]
  /\ calls' = [calls EXCEPT ![i] = 0]
  /\ spent' = [spent EXCEPT ![i] = 0]
  /\ waits' = [waits EXCEPT ![i] = 0]

\* (variant of TickSkips: no test of busy)
TickSkipsNever(b) == FALSE

\* if (busy) return;
TickSkips(b) == b

\* A tick that fires while busy is set: processOne returns at once.
BusyTick(i) ==
  /\ Alive(i)
  /\ TickSkips(busy[i])
  /\ UNCHANGED vars

\* (variant of ClaimUpdate: the update replaces the payload)
ClaimUpdateReplace(doc, i) ==
  [doc EXCEPT !.status = "RUNNING", !.claimedBy = i, !.claimedAt = now,
              !.payload = [title |-> FALSE, content |-> FALSE]]

\* (variant of ClaimUpdate: claimedBy is not written)
ClaimUpdateNoOwner(doc, i) ==
  [doc EXCEPT !.status = "RUNNING", !.claimedAt = now]

\* $set of the claim's findOneAndUpdate.
ClaimUpdate(doc, i) ==
  [doc EXCEPT !.status = "RUNNING", !.claimedBy = i, !.claimedAt = now]

\* A tick starts: if (busy) return; busy = true; and the claim's
\* findOneAndUpdate is sent to the store.  (Specifications without this
\* action take the start of the tick and the store's answer as one step.)
Tick(i) ==
  /\ Alive(i)
  /\ ~TickSkips(busy[i])
  /\ busy' = [busy EXCEPT ![i] = TRUE]
  /\ pc' = [pc EXCEPT ![i] = "claim"]
  /\ UNCHANGED <<jobs, now, job, a, lastErr, gen, calls, spent, waits, http, proc, io, users, reqs>>

\* Job.findOneAndUpdate answers: no match (busy = false; return), or the
\* document after the update, and the loop starts at a = job.attempt || 0
\* (no pass at all if that is not below maxAttempts: the tick ends).
Claim(i) ==
  /\ Connected(i)
  /\ pc[i] = "claim" \/ ~TickSkips(busy[i])
  /\ IF Candidates(i) = {}
       THEN /\ Release(i)
            /\ UNCHANGED jobs
       ELSE \E j \in Candidates(i) :
            /\ jobs' = [jobs EXCEPT ![j] = ClaimUpdate(@, i)]
            /\ IF LoopTest(jobs[j].attempt)
                 THEN /\ busy' = [busy EXCEPT ![i] = TRUE]
                      /\ job' = [job EXCEPT ![i] = j]
                      /\ a' = [a EXCEPT ![i] = jobs[j].attempt]
                      /\ pc' = [pc EXCEPT ![i] = "attempt"]
                      /\ UNCHANGED <<lastErr, gen, calls, spent, waits>>
                 ELSE Release(i)
  /\ UNCHANGED <<now, http, proc, io, users, reqs>>

\* (variant of HasJob: the outer catch does not look at job)
HasJobAlways(j) == TRUE

\* if (job && job._id), in the outer catch
HasJob(j) == j # 0

\* Job.findOneAndUpdate throws: the outer catch with job = null, which
\* writes nothing, then finally { busy = false }.
ClaimError(i) ==
  /\ Alive(i)
  /\ pc[i] = "claim" \/ ~TickSkips(busy[i])
  /\ IF HasJob(job[i])
       THEN /\ busy' = [busy EXCEPT ![i] = TRUE]
            /\ lastErr' = [lastErr EXCEPT ![i] = Error("store")]
            /\ pc' = [pc EXCEPT ![i] = "uncaught"]
            /\ UNCHANGED <<job, a, gen, calls, spent, waits>>
       ELSE Release(i)
  /\ UNCHANGED <<jobs, now, http, proc, io, users, reqs>>

\* What catch (err) of the loop body does with the error before the wait.
CatchErr(err) == err

\* catch (err) of the loop body: lastErr = err; the backoff wait; a++; the
\* loop test, and after the loop if (lastErr), which then holds.
Caught(i, err) ==
  /\ lastErr' = [lastErr EXCEPT ![i] = CatchErr(err)]
  /\ waits' = [waits EXCEPT ![i] = @ + 1]
  /\ a' = [a EXCEPT ![i] = @ + 1]
  /\ gen' = [gen EXCEPT ![i] = 0]
  /\ pc' = [pc EXCEPT ![i] = IF LoopTest(a[i] + 1) THEN "attempt" ELSE "fail"]

\* The typed operation of a pass, the provider behaving as b, and what the
\* loop body does with its outcome.
Operation(i, b) ==
  LET r == generate(b.outs, b.t, b.text) IN
  /\ calls' = [calls EXCEPT ![i] = @ + 1]
  /\ spent' = [spent EXCEPT ![i] = @ + r.billed]
  /\ IF r.ok
       THEN /\ gen' = [gen EXCEPT ![i] = r.tokensUsed]
            /\ pc' = [pc EXCEPT ![i] = "save"]
            /\ UNCHANGED <<lastErr, waits, a>>
       ELSE Caught(i, r.err)

\* One pass of the loop body: the payload check, then the typed operation of
\* the job's type; b is how the provider behaves during it.
Attempt(i, B) ==
  /\ Alive(i)
  /\ pc[i] = "attempt"
  /\ IF PayloadMissing(jobs[job[i]])
       THEN /\ Caught(i, Error("precondition"))
            /\ UNCHANGED <<calls, spent>>
       ELSE \E b \in B : Operation(i, b)
  /\ UNCHANGED <<jobs, now, busy, job, http, proc, io, users, reqs>>

\* The generateContent calls made so far, as io counts them: n calls, t of
\* them ended in a transient error.
SdkCount == IF io.op = "sdk" THEN io ELSE [op |-> "sdk", n |-> 0, t |-> 0]

\* The same pass, with the generateContent calls it makes counted in io.
AttemptCounted(i, B) ==
  /\ Alive(i)
  /\ pc[i] = "attempt"
  /\ IF PayloadMissing(jobs[job[i]])
       THEN /\ Caught(i, Error("precondition"))
            /\ UNCHANGED <<calls, spent, io>>
       ELSE \E b \in B :
            LET r == generate(b.outs, b.t, b.text) IN
            /\ Operation(i, b)
            /\ io' = [SdkCount EXCEPT !.n = @ + r.sdkCalls, !.t = @ + r.transients]
  /\ UNCHANGED <<jobs, now, busy, job, http, proc, users, reqs>>

\* (variant of TokenInc: the sign flipped)
TokenIncNegated(t) == 0 - t

\* $inc of the SUCCEEDED update.
TokenInc(t) == t

\* (variant of ResetErr: lastErr is not reset)
ResetErrKept(err) == err

\* lastErr = null, after the SUCCEEDED update.
ResetErr(err) == NoErr

\* (variant of AttemptOf: the index of the pass)
AttemptOfSame(n) == n

\* attempt: a + 1, in the SUCCEEDED update
AttemptOf(n) == n + 1

\* The SUCCEEDED update is applied; lastErr = null; break; after the loop
\* if (lastErr) is false and the tick ends.
Save(i) ==
  /\ Connected(i)
  /\ pc[i] = "save"
  /\ jobs' = [jobs EXCEPT ![job[i]] =
                [@ EXCEPT !.status = "SUCCEEDED", !.result = "result",
                          !.model = "gemini", !.attempt = AttemptOf(a[i]),
                          !.tokensUsed = @ + TokenInc(gen[i])]]
  /\ IF ResetErr(lastErr[i]) = NoErr
       THEN Release(i)
       ELSE /\ pc' = [pc EXCEPT ![i] = "fail"]
            /\ UNCHANGED <<busy, job, a, lastErr, gen, calls, spent, waits>>
  /\ UNCHANGED <<now, http, proc, io, users, reqs>>

\* (variant of SaveError: the error of the update leaves the loop)
SaveErrorEscapes(i) ==
  /\ Alive(i)
  /\ pc[i] = "save"
  /\ lastErr' = [lastErr EXCEPT ![i] = Error("store")]
  /\ pc' = [pc EXCEPT ![i] = "uncaught"]
  /\ UNCHANGED <<jobs, now, busy, job, a, gen, calls, spent, waits, http, proc, io, users, reqs>>

\* The SUCCEEDED update throws: caught like any error of the pass.
SaveError(i) ==
  /\ Alive(i)
  /\ pc[i] = "save"
  /\ Caught(i, Error("store"))
  /\ UNCHANGED <<jobs, now, busy, job, calls, spent, http, proc, io, users, reqs>>

\* The FAILED update is applied; finally.
MarkFailed(i) ==
  /\ Connected(i)
  /\ pc[i] = "fail"
  /\ jobs' = [jobs EXCEPT ![job[i]] =
                [@ EXCEPT !.status = "FAILED", !.attempt = maxAttempts,
                          !.error = toJobError(lastErr[i], "PROVIDER")]]
  /\ Release(i)
  /\ UNCHANGED <<now, http, proc, io, users, reqs>>

\* The FAILED update throws: the outer catch, with a claimed job.
MarkFailedError(i) ==
  /\ Alive(i)
  /\ pc[i] = "fail"
  /\ lastErr' = [lastErr EXCEPT ![i] = Error("store")]
  /\ pc' = [pc EXCEPT ![i] = "uncaught"]
  /\ UNCHANGED <<jobs, now, busy, job, a, gen, calls, spent, waits, http, proc, io, users, reqs>>

\* (variant of UncaughtUpdate: the error is recorded as a provider error)
UncaughtUpdateProvider(doc, err) ==
  [doc EXCEPT !.status = "FAILED", !.error = toJobError(err, "PROVIDER")]

\* $set of the update in the outer catch.
UncaughtUpdate(doc, err) ==
  [doc EXCEPT !.status = "FAILED", !.error = toJobError(err, "WORKER_UNCAUGHT")]

\* The best-effort WORKER_UNCAUGHT update is applied; finally.
Uncaught(i) ==
  /\ Connected(i)
  /\ pc[i] = "uncaught"
  /\ jobs' = [jobs EXCEPT ![job[i]] = UncaughtUpdate(@, lastErr[i])]
  /\ Release(i)
  /\ UNCHANGED <<now, http, proc, io, users, reqs>>

\* (variant of Swallow: no .catch on the best-effort update)
SwallowNothing(err) == err

\* .catch(() => {}) on the best-effort update: its rejection goes no further.
Swallow(err) == "none"

\* The best-effort update throws too: .catch(() => {}); finally.  (An error
\* that left the catch block would reject processOne's promise, which no
\* one handles: proc "rejected".)
UncaughtError(i) ==
  /\ Alive(i)
  /\ pc[i] = "uncaught"
  /\ Release(i)
  /\ proc' = IF Swallow("store") = "none" THEN proc ELSE [proc EXCEPT ![i] = "rejected"]
  /\ UNCHANGED <<jobs, now, http, io, users, reqs>>

\* --------------------------------------------- adapter functions on their own
\* A call of parseJSONResponse on a text; the function keeps no state, so a
\* behaviour makes one call.
ParseResponse(text) ==
  /\ io = NoCall
  /\ io' = [op |-> "parseJSONResponse", in |-> text, out |-> ParseText(text)]
  /\ UNCHANGED <<jobs, now, busy, pc, job, a, lastErr, gen, calls, spent, waits, http, proc, users, reqs>>

\* withRetry on its own: fn ends its k-th call as outs[k].
Retry(outs, attempts) ==
  /\ io = NoCall
  /\ io' = [op |-> "withRetry", in |-> [outs |-> outs, attempts |-> attempts],
            out |-> withRetry(outs, attempts, 0)]
  /\ UNCHANGED <<jobs, now, busy, pc, job, a, lastErr, gen, calls, spent, waits, http, proc, users, reqs>>

\* generateText in time.  io holds the call: pc is "call" while a
\* generateContent request is in flight, "sleep" during a backoff, "done"
\* once generateText has returned or thrown; i is withRetry's loop counter,
\* clock the ms since the call began, wake the clock at which the sleep
\* ends, timer the state of the setTimeout, aborted is controller.signal.aborted.
Step == DEFAULT_RETRY_BASE_MS          \* ms by which the clock advances
Horizon == DEFAULT_TIMEOUT_MS + 4 * Step
AbortError == [ok |-> FALSE, message |-> "abort", code |-> 0]

\* (variant of Cancels: generateContent is not given the signal)
CancelsNever(aborted) == FALSE
\* generateContent(..., { signal: controller.signal }): a request whose
\* signal is aborted is rejected at once with the abort error.
Cancels(aborted) == aborted

\* new AbortController(), setTimeout(() => controller.abort(), ...), and
\* withRetry(exec) sends the first request
StartText ==
  /\ io = NoCall
  /\ io' = [op |-> "generateText", pc |-> "call", i |-> 0, clock |-> 0, wake |-> 0,
            timer |-> "armed", aborted |-> FALSE, lastErr |-> Ok, ok |-> FALSE]
  /\ UNCHANGED <<jobs, now, busy, pc, job, a, lastErr, gen, calls, spent, waits, http, proc, users, reqs>>

\* the request in flight settles as out, and withRetry goes on from there:
\* return, throw (the finally clears the timer), or sleep before the next call
CallSettles(out) ==
  /\ io.op = "generateText" /\ io.pc = "call"
  /\ IF Cancels(io.aborted) THEN out = AbortError ELSE out \in SdkOutcomes
  /\ io' = IF out.ok
             THEN [io EXCEPT !.pc = "done", !.ok = TRUE, !.timer = "cleared"]
           ELSE IF io.i = DEFAULT_RETRY_ATTEMPTS - 1 \/ ~isRetriableError(out)
             THEN [io EXCEPT !.pc = "done", !.lastErr = out, !.timer = "cleared"]
           ELSE [io EXCEPT !.pc = "sleep", !.lastErr = out,
                           !.wake = io.clock + Backoff(DEFAULT_RETRY_BASE_MS, io.i)]
  /\ UNCHANGED <<jobs, now, busy, pc, job, a, lastErr, gen, calls, spent, waits, http, proc, users, reqs>>

\* the timer's callback: controller.abort()
TimerFires ==
  /\ io.op = "generateText" /\ io.timer = "armed" /\ io.clock = DEFAULT_TIMEOUT_MS
  /\ io' = [io EXCEPT !.timer = "fired", !.aborted = TRUE]
  /\ UNCHANGED <<jobs, now, busy, pc, job, a, lastErr, gen, calls, spent, waits, http, proc, users, reqs>>

\* (variant of SleepEnds: every call of exec makes a controller and a timer
\* of its own)
SleepEndsFresh ==
  /\ io.op = "generateText" /\ io.pc = "sleep" /\ io.clock = io.wake
  /\ io' = [io EXCEPT !.pc = "call", !.i = @ + 1, !.aborted = FALSE, !.timer = "armed"]
  /\ UNCHANGED <<jobs, now, busy, pc, job, a, lastErr, gen, calls, spent, waits, http, proc, users, reqs>>

\* sleep(delay) is over: the next turn of withRetry's loop sends a request
SleepEnds ==
  /\ io.op = "generateText" /\ io.pc = "sleep" /\ io.clock = io.wake
  /\ io' = [io EXCEPT !.pc = "call", !.i = @ + 1]
  /\ UNCHANGED <<jobs, now, busy, pc, job, a, lastErr, gen, calls, spent, waits, http, proc, users, reqs>>

\* time passes while a request is in flight or a sleep lasts; a timer that
\* is due, and the rejection of a cancelled request, come first
TimePasses ==
  /\ io.op = "generateText" /\ io.pc \in {"call", "sleep"}
  /\ io.clock < Horizon
  /\ ~(io.timer = "armed" /\ io.clock = DEFAULT_TIMEOUT_MS)
  /\ ~(io.pc = "sleep" /\ io.clock = io.wake)
  /\ ~(io.pc = "call" /\ Cancels(io.aborted))
  /\ io' = [io EXCEPT !.clock = @ + Step]
  /\ UNCHANGED <<jobs, now, busy, pc, job, a, lastErr, gen, calls, spent, waits, http, proc, users, reqs>>

\* The typed operations, from the parsed response on.  A parsed response is
\* [fields, items]: the expected top-level fields it has (each with a truthy
\* value of the expected type) and the elements of its list field.
TypedOps ==
  {"generateKeywords", "generateArticle", "generateSEOReview", "generateMeta",
   "generateImage", "generateHashtags"}

ExpectedFields(op) ==
  CASE op = "generateKeywords" -> {"topic", "keywords"}
    [] op = "generateArticle" -> {"title", "content", "wordCount"}
    [] op = "generateSEOReview" ->
         {"score", "analysis", "recommendations", "strengths", "issues"}
    [] op = "generateMeta" ->
         {"metaTitle", "metaDescription", "metaKeywords", "ogTitle",
          "ogDescription", "twitterTitle", "twitterDescription"}
    [] op = "generateImage" ->
         {"imagePrompt", "altText", "caption", "style", "suggestions"}
    [] op = "generateHashtags" -> {"hashtags", "platforms", "trending"}

\* The field whose value is a list of objects, and the fields of its elements.
ListField(op) ==
  CASE op = "generateKeywords" -> "keywords"
    [] op = "generateHashtags" -> "hashtags"
    [] OTHER -> "none"

KeywordFields == {"keyword", "volume", "difficulty", "source"}

\* A keyword element has any of its fields; a hashtag element has its tag and
\* its popularity or not, and a relevance or none.
Elements(op) ==
  CASE op = "generateKeywords" -> [has : SUBSET KeywordFields]
    [] op = "generateHashtags" ->
         [tag : BOOLEAN, popularity : BOOLEAN,
          relevance : {"primary", "secondary", "missing"}]
    [] OTHER -> {}

Lists(op) == UNION {[1..l -> Elements(op)] : l \in 0..MaxItems}

Responses(op) ==
  {r \in [fields : SUBSET ExpectedFields(op), items : Lists(op)] :
     ListField(op) \notin r.fields => r.items = <<>>}

KeywordCounts == {0, 1}               \* keywordStrings.length of the call

\* data?.f || default
Pick(data, f) == IF f \in data.fields THEN "data" ELSE "default"

Flat(op, data) == [f \in ExpectedFields(op) \ {ListField(op)} |-> Pick(data, f)]

Returned(result) == [threw |-> FALSE, result |-> result]
Thrown(name) == [threw |-> TRUE, error |-> name]

normaliseKeywords(data) ==
  LET keywordsArray == IF "keywords" \in data.fields THEN data.items ELSE <<>>
      keywords == [x \in 1..Len(keywordsArray) |->
                     [f \in KeywordFields |->
                        IF f \in keywordsArray[x].has THEN "data" ELSE "default"]]
  IN  Returned([topic |-> Pick(data, "topic"), keywords |-> keywords])

Least(x, y) == IF x < y THEN x ELSE y

\* h.tag.replace('#', '') on an element: a TypeError without a tag.
TagThrows(h) == ~h.tag

normaliseHashtags(data, kw) ==
  LET given == IF "hashtags" \in data.fields THEN data.items ELSE <<>>
      fallbackTags == [x \in 1..Least(kw, 5) |->
                         [tag |-> TRUE, popularity |-> TRUE, relevance |-> "primary"]]
      hashtags == IF Len(given) = 0 THEN fallbackTags ELSE given
      all == 1..Len(hashtags)
      primary == {x \in all : hashtags[x].relevance = "primary"}
      secondary == {x \in all : hashtags[x].relevance = "secondary"}
      primaryTags == IF primary = {} /\ Len(hashtags) > 0
                       THEN 1..Least(Len(hashtags), 5) ELSE primary
      secondaryTags == IF secondary = {} /\ Len(hashtags) > 5
                         THEN 6..Least(Len(hashtags), 10) ELSE secondary
  IN  IF \E x \in primary \cup secondary \cup primaryTags \cup secondaryTags :
           TagThrows(hashtags[x])
        THEN Thrown("TypeError")
        ELSE Returned([primary |-> primaryTags, secondary |-> secondaryTags,
                       trending |-> Pick(data, "trending"),
                       platforms |-> Pick(data, "platforms"),
                       all |-> hashtags])

\* What a typed operation does with the parsed response.
normalise(op, data, kw) ==
  CASE op = "generateKeywords" -> normaliseKeywords(data)
    [] op = "generateHashtags" -> normaliseHashtags(data, kw)
    [] OTHER -> Returned(Flat(op, data))

\* A typed operation whose provider call returned the well-formed response data.
TypedCall(op, data, kw) ==
  /\ io = NoCall
  /\ io' = [op |-> op, in |-> data, keywords |-> kw, out |-> normalise(op, data, kw)]
  /\ UNCHANGED <<jobs, now, busy, pc, job, a, lastErr, gen, calls, spent, waits, http, proc, users, reqs>>

\* The score of generateSEOReview.  A value of the parsed response is its
\* typeof and, for a number, the number (whole numbers are tried); "absent"
\* is a response without the field.
ScoreValues ==
  [type : {"number"}, n : (0 - MaxScore)..MaxScore]
    \cup [type : {"string", "boolean", "object", "absent"}, n : {0, 85}]

\* (variant of clamp: Math.min alone)
clampAbove(n) == IF n > 100 THEN 100 ELSE n

\* Math.max(0, Math.min(100, n))
clamp(n) == IF n < 0 THEN 0 ELSE IF n > 100 THEN 100 ELSE n

\* typeof data?.score === 'number' ? Math.max(0, Math.min(100, data.score)) : 75
seoScore(v) == IF v.type = "number" THEN clamp(v.n) ELSE 75

\* generateSEOReview computes the score of a parsed response
Score(v) ==
  /\ io = NoCall
  /\ io' = [op |-> "seoScore", in |-> v, out |-> seoScore(v)]
  /\ UNCHANGED <<jobs, now, busy, pc, job, a, lastErr, gen, calls, spent, waits, http, proc, users, reqs>>

\* ------------------------------------------------------------ auth routes
\* Strings a request may carry: "E1" is "e1" in upper case, "bad" is no
\* e-mail address, "short" has fewer than 8 characters.
Emails == {"e1", "E1", "e2", "bad"}
Names == {"u1", "u2"}
Passwords == {"pw1", "pw2", "short"}

RegisterBodies == [username : Names, email : Emails, password : Passwords]
LoginBodies == [email : Emails, password : Passwords]

\* .trim().toLowerCase(), on these strings.
toLowerCase(x) == IF x = "E1" THEN "e1" ELSE x

\* registerSchema.safeParse(req.body).success, loginSchema likewise.
registerSchema(body) == body.email # "bad" /\ body.password # "short"
loginSchema(body) == body.email # "bad" /\ body.password # "short"

\* bcrypt.hash in pre('save'), bcrypt.compare in comparePassword.
hash(password) == <<"bcrypt", password>>
\* (variant of comparePassword: any candidate passes)
comparePasswordAny(user, candidate) == TRUE

comparePassword(user, candidate) == user.password = hash(candidate)

\* jwt.sign({ sub: user.id, username: user.username }, secret), JWT_SECRET set.
signJwt(id) == [sub |-> id, username |-> users'[id].username]

\* The body of a 201 or 200 answer.
Session(id) ==
  [token |-> signJwt(id),
   user |-> [id |-> id, username |-> users'[id].username, email |-> users'[id].email]]

Answered(op, body, status, out) ==
  [pc |-> "done", op |-> op, in |-> body, status |-> status, out |-> out]

\* User.findOne({ $or: [{ email }, { username }] }): the ids that match.
Existing(email, username) ==
  {u \in DOMAIN users : users[u].email = email \/ users[u].username = username}

\* The unique indexes of UserSchema on username and on email.
IndexesAllow(email, username) == Existing(email, username) = {}

\* POST /auth/register up to await user.save(): 400, 409, or on to the save.
RegisterFind(r, body) ==
  /\ reqs[r].pc # "save"
  /\ reqs' = [reqs EXCEPT ![r] =
       IF ~registerSchema(body)
         THEN Answered("register", body, 400, [error |-> "Invalid payload"])
       ELSE IF Existing(toLowerCase(body.email), body.username) # {}
         THEN Answered("register", body, 409, [error |-> "User already exists"])
       ELSE [pc |-> "save", op |-> "register", in |-> body]]
  /\ UNCHANGED <<jobs, now, busy, pc, job, a, lastErr, gen, calls, spent, waits, http, proc, io, users>>

\* user.save(): the insert, and 201 with a token and the user; or the
\* duplicate-key error of a unique index, handed to next(err): 500.
RegisterSave(r) ==
  /\ reqs[r].pc = "save"
  /\ LET body == reqs[r].in
         email == toLowerCase(body.email)
     IN  IF IndexesAllow(email, body.username)
           THEN /\ users' = Append(users, [username |-> body.username, email |-> email,
                                           password |-> hash(body.password)])
                /\ reqs' = [reqs EXCEPT ![r] =
                             Answered("register", body, 201, Session(Len(users) + 1))]
           ELSE /\ users' = users
                /\ reqs' = [reqs EXCEPT ![r] =
                             Answered("register", body, 500, [error |-> "E11000 duplicate key"])]
  /\ UNCHANGED <<jobs, now, busy, pc, job, a, lastErr, gen, calls, spent, waits, http, proc, io>>

\* POST /auth/login: 400, 401 (no such user, or comparePassword false), 200.
Login(r, body) ==
  /\ reqs[r].pc # "save"
  /\ users' = users
  /\ LET found == {u \in DOMAIN users : users[u].email = toLowerCase(body.email)}
     IN  reqs' = [reqs EXCEPT ![r] =
           IF ~loginSchema(body)
             THEN Answered("login", body, 400, [error |-> "Invalid payload"])
           ELSE IF found = {}
             THEN Answered("login", body, 401, [error |-> "Invalid credentials"])
           ELSE LET u == CHOOSE u \in found : \A v \in found : u <= v
                IN  IF ~comparePassword(users[u], body.password)
                      THEN Answered("login", body, 401, [error |-> "Invalid credentials"])
                      ELSE Answered("login", body, 200, Session(u))]
  /\ UNCHANGED <<jobs, now, busy, pc, job, a, lastErr, gen, calls, spent, waits, http, proc, io>>

\* ------------------------------------------------------------ shutdown
\* process.on('SIGINT'): await mongoose.connection.close().
Sigint(i) ==
  /\ proc[i] = "up"
  /\ proc' = [proc EXCEPT ![i] = "closed"]
  /\ UNCHANGED <<jobs, now, busy, pc, job, a, lastErr, gen, calls, spent, waits, http, io, users, reqs>>

\* server.close(() => process.exit(0)): the process ends, wherever its tick is.
Exit(i) ==
  /\ proc[i] = "closed"
  /\ proc' = [proc EXCEPT ![i] = "exited"]
  /\ UNCHANGED <<jobs, now, busy, pc, job, a, lastErr, gen, calls, spent, waits, http, io, users, reqs>>

\* ------------------------------------------------------------ POST /ai
Respond(op, who, id, status, body) ==
  [op |-> op, who |-> who, id |-> id, status |-> status, body |-> body]

NoResponse == Respond("none", "none", 0, 0, [error |-> "none"])

\* A request body: type as sent ("" when the field is missing) and the other
\* fields, here which of title and content are present.
RawTypes == ALLOWED_TYPES \cup {"seo", "keywords", "VIDEO", ""}
Bodies == [type : RawTypes, title : BOOLEAN, content : BOOLEAN]

\* String(...).toUpperCase(), on the strings of RawTypes.
toUpperCase(t) ==
  CASE t = "seo" -> "SEO"
    [] t = "keywords" -> "KEYWORDS"
    [] OTHER -> t

\* const type = String(req.body?.type || '').toUpperCase()
BodyType(body) == toUpperCase(body.type)

\* (variant of BodyRest: the whole body is kept as payload)
BodyRestWhole(body) == body

\* const { type: jobType, ...payload } = req.body
BodyRest(body) == [f \in DOMAIN body \ {"type"} |-> body[f]]

\* (variant of Unsupported: the supported set is not listed)
UnsupportedBare(who, type) ==
  Respond("submit", who, 0, 400,
          [error |-> "Unsupported AI job type", received |-> type])

\* The 400 answer to an unsupported type.
Unsupported(who, type) ==
  Respond("submit", who, 0, 400,
          [error |-> "Unsupported AI job type", supported |-> ALLOWED_TYPES,
           received |-> type])

\* The route: 400 for an unsupported type, 401 without a principal ("none"),
\* else Job.create and 201 with the new job's id.
\* d: the time that passed since the previous job was created (the first
\* job is created at time 1); n: the number of jobs the store can take.
Submit(who, body, d, n) ==
  IF BodyType(body) \notin ALLOWED_TYPES
    THEN /\ http' = Unsupported(who, BodyType(body))
         /\ UNCHANGED <<jobs, now, busy, pc, job, a, lastErr, gen, calls, spent, waits, proc, io, users, reqs>>
  ELSE IF who = "none"
    THEN /\ http' = Respond("submit", who, 0, 401, [error |-> "Unauthorized"])
         /\ UNCHANGED <<jobs, now, busy, pc, job, a, lastErr, gen, calls, spent, waits, proc, io, users, reqs>>
  ELSE /\ Len(jobs) < n
       /\ jobs = <<>> => d = 1
       /\ now' = now + d
       /\ jobs' = Append(jobs, [NewJob(who, BodyType(body), BodyRest(body))
                                  EXCEPT !.createdAt = now'])
       /\ http' = Respond("submit", who, Len(jobs) + 1, 201, [id |-> Len(jobs) + 1])
       /\ UNCHANGED <<busy, pc, job, a, lastErr, gen, calls, spent, waits, proc, io, users, reqs>>

\* ------------------------------------------------------- GET /jobs/:id
\* A request names a principal ("none": req.user.id is missing) and an id:
\* Malformed fails idSchema; any other id is well formed and names the job
\* with that _id if there is one.
Malformed == 0
idSchema(id) == id # Malformed

\* (variant of Owns: no ownership test)
OwnsAnyone(doc, who) == TRUE

\* String(job.userId) !== userId, negated.
Owns(doc, who) == doc.userId = who

\* The response object: the four fixed fields, and result, error, tokensUsed
\* and model only when present (result !== undefined, the others truthy).
JobView(id, doc) ==
  LET fields == {"id", "userId", "type", "status"}
                  \cup (IF doc.result # "none" THEN {"result"} ELSE {})
                  \cup (IF doc.error # NoError THEN {"error"} ELSE {})
                  \cup (IF doc.tokensUsed # 0 THEN {"tokensUsed"} ELSE {})
                  \cup (IF doc.model # "none" THEN {"model"} ELSE {})
  IN  [f \in fields |-> IF f = "id" THEN id ELSE doc[f]]

\* if (!job): the answer when Job.findById finds nothing.
NotFound(who, id) == Respond("query", who, id, 404, [error |-> "Job not found"])

\* (variant of NotOwner: 403 for a job of another principal)
NotOwnerForbidden(who, id) == Respond("query", who, id, 403, [error |-> "Forbidden"])

\* if (String(job.userId) !== userId): the answer for another principal's job.
NotOwner(who, id) == Respond("query", who, id, 404, [error |-> "Job not found"])

\* The route: 400, 401, 404 (no such job, or not the principal's) or 200.
\* (An error of Job.findById goes to next(err): the route answers nothing.)
Query(who, id) ==
  /\ http' =
       IF ~idSchema(id)
         THEN Respond("query", who, id, 400, [error |-> "Invalid job id format"])
       ELSE IF who = "none"
         THEN Respond("query", who, id, 401, [error |-> "Unauthorized"])
       ELSE IF id \notin Ids
         THEN NotFound(who, id)
       ELSE IF ~Owns(jobs[id], who)
         THEN NotOwner(who, id)
       ELSE Respond("query", who, id, 200, JobView(id, jobs[id]))
  /\ UNCHANGED <<jobs, now, busy, pc, job, a, lastErr, gen, calls, spent, waits, proc, io, users, reqs>>

\* ------------------------------------------------------- specification
Init ==
  /\ jobs = <<>>
  /\ now = 0
  /\ busy = [i \in Instances |-> FALSE]
  /\ pc = [i \in Instances |-> "idle"]
  /\ job = [i \in Instances |-> 0]
  /\ a = [i \in Instances |-> 0]
  /\ lastErr = [i \in Instances |-> NoErr]
  /\ gen = [i \in Instances |-> 0]
  /\ calls = [i \in Instances |-> 0]
  /\ spent = [i \in Instances |-> 0]
  /\ waits = [i \in Instances |-> 0]
  /\ http = NoResponse
  /\ proc = [i \in Instances |-> "up"]
  /\ io = NoCall
  /\ users = <<>>
  /\ reqs = [r \in Handlers |-> Idle]

Runner(i, B) ==
  \/ BusyTick(i)
  \/ Claim(i) \/ ClaimError(i)
  \/ Attempt(i, B) \/ Save(i) \/ SaveError(i)
  \/ MarkFailed(i) \/ MarkFailedError(i) \/ Uncaught(i) \/ UncaughtError(i)

\* ---- Spec: two runner instances, MaxJobs submissions of two kinds of job.
SomeInputs ==
  { [type |-> "KEYWORDS", title |-> FALSE, content |-> FALSE],
    [type |-> "SEO", title |-> FALSE, content |-> TRUE] }

Next ==
  \/ \E in \in SomeInputs, d \in Elapsed : Submit("A", in, d, MaxJobs)
  \/ \E i \in Instances : Runner(i, FewBehaviours)

Spec == Init /\ [][Next]_vars

\* ---- SpecTick: one runner, one job of any type and payload, any provider.
NextTick ==
  \/ \E type \in ALLOWED_TYPES, payload \in Payloads, d \in Elapsed :
       Submit("A", [type |-> type, title |-> payload.title,
                    content |-> payload.content], d, 1)
  \/ Runner("w1", Behaviours)

SpecTick == Init /\ [][NextTick]_vars

\* ---- SpecQuery: one runner, one job of either principal, and queries.
NextQuery ==
  \/ \E who \in Users, in \in SomeInputs : Submit(who, in, 1, 1)
  \/ Runner("w1", FewBehaviours)
  \/ \E who \in Users \cup {"none"}, id \in {Malformed, 1, 2} : Query(who, id)

SpecQuery == Init /\ [][NextQuery]_vars

\* ---- SpecSubmit: one runner, and requests by either principal or none
\* with a supported type, one in lower case, an unsupported type or no type.
Request(who, type, article) ==
  [who |-> who, body |-> [type |-> type, title |-> article, content |-> article]]

FewRequests ==
  { Request("A", "SEO", TRUE), Request("B", "seo", FALSE),
    Request("none", "seo", TRUE), Request("A", "VIDEO", TRUE),
    Request("none", "VIDEO", FALSE), Request("B", "", FALSE) }

NextSubmit ==
  \/ \E r \in FewRequests : Submit(r.who, r.body, 1, MaxJobs)
  \/ Runner("w1", FewBehaviours)

SpecSubmit == Init /\ [][NextSubmit]_vars

\* ---- SpecTickFair: SpecTick with a runner whose tick always goes on: the
\* timer fires, provider calls return, backoff waits end, the store answers
\* (with a result or with an error).
SpecTickFair == SpecTick /\ WF_vars(Runner("w1", Behaviours))

\* ---- SpecQueueFair: one runner that keeps ticking and whose ticks go on
\* (the store answers the claim in the end), while jobs are submitted.
NextQueue ==
  \/ \E in \in SomeInputs, d \in Elapsed : Submit("A", in, d, MaxJobs)
  \/ Runner("w1", FewBehaviours)

SpecQueueFair ==
  Init /\ [][NextQueue]_vars /\ WF_vars(Runner("w1", FewBehaviours))

\* ---- SpecShutdown: one runner, its jobs, and the process's SIGINT handler.
NextShutdown ==
  \/ \E in \in SomeInputs : Submit("A", in, 1, MaxJobs)
  \/ Runner("w1", FewBehaviours)
  \/ Sigint("w1")
  \/ Exit("w1")

SpecShutdown == Init /\ [][NextShutdown]_vars

\* ---- SpecClaim: one runner whose tick start and claim are separate steps,
\* with a store that may fail any call, while jobs are submitted.
NextClaim ==
  \/ \E in \in SomeInputs : Submit("A", in, 1, MaxJobs)
  \/ Tick("w1")
  \/ Runner("w1", FewBehaviours)

SpecClaim == Init /\ [][NextClaim]_vars

\* ---- SpecParse: parseJSONResponse on every text of up to MaxLen tokens.
NextParse == \E text \in Texts : ParseResponse(text)

SpecParse == Init /\ [][NextParse]_vars

\* ---- SpecSparse: every typed operation on every sparse response.
NextSparse ==
  \E op \in TypedOps : \E data \in Responses(op) : \E kw \in KeywordCounts :
    TypedCall(op, data, kw)

SpecSparse == Init /\ [][NextSparse]_vars

\* ---- SpecRetry: withRetry over every run of provider outcomes, for every
\* attempt ceiling up to the default.
NextRetry ==
  /\ io = NoCall
  /\ \E outs \in [1..DEFAULT_RETRY_ATTEMPTS -> {Ok} \cup SdkErrors] :
       \E attempts \in 1..DEFAULT_RETRY_ATTEMPTS : Retry(outs, attempts)

SpecRetry == Init /\ [][NextRetry]_vars

\* ---- SpecTimeout: one generateText call in time, against a provider whose
\* requests take any time, or hang.
NextTimeout ==
  \/ StartText
  \/ \E out \in SdkOutcomes \cup {AbortError} : CallSettles(out)
  \/ TimerFires
  \/ SleepEnds
  \/ TimePasses

SpecTimeout == Init /\ [][NextTimeout]_vars

\* ---- SpecStore: the claim of each instance, on a Job collection in any
\* state: documents of every status, with claimedBy absent or naming either
\* instance, whatever wrote them.
Docs ==
  [ userId : {"A"}, type : {"KEYWORDS"},
    status : {"PENDING", "RUNNING", "SUCCEEDED", "FAILED"},
    payload : {[title |-> FALSE, content |-> FALSE]},
    result : {"none"}, error : {NoError}, model : {"none"},
    tokensUsed : {0}, attempt : {0},
    claimedBy : {"none"} \cup Instances, claimedAt : {0}, createdAt : Elapsed ]

InitStore ==
  /\ jobs \in [1..MaxJobs -> Docs]
  /\ now = 1
  /\ busy = [i \in Instances |-> FALSE]
  /\ pc = [i \in Instances |-> "idle"]
  /\ job = [i \in Instances |-> 0]
  /\ a = [i \in Instances |-> 0]
  /\ lastErr = [i \in Instances |-> NoErr]
  /\ gen = [i \in Instances |-> 0]
  /\ calls = [i \in Instances |-> 0]
  /\ spent = [i \in Instances |-> 0]
  /\ waits = [i \in Instances |-> 0]
  /\ http = NoResponse
  /\ proc = [i \in Instances |-> "up"]
  /\ io = NoCall
  /\ users = <<>>
  /\ reqs = [r \in Handlers |-> Idle]

NextStore == \E i \in Instances : Claim(i)

SpecStore == InitStore /\ [][NextStore]_vars

\* ---- SpecScore: the SEO score of every value a parsed response may hold.
NextScore == \E v \in ScoreValues : Score(v)

SpecScore == Init /\ [][NextScore]_vars

\* ---- SpecNest: one runner, one job of any type and payload, any
\* provider, the generateContent calls counted.
NextNest ==
  \/ \E type \in ALLOWED_TYPES, payload \in Payloads :
       Submit("A", [type |-> type, title |-> payload.title,
                    content |-> payload.content], 1, 1)
  \/ BusyTick("w1")
  \/ Claim("w1") \/ ClaimError("w1")
  \/ AttemptCounted("w1", Behaviours) \/ Save("w1") \/ SaveError("w1")
  \/ MarkFailed("w1") \/ MarkFailedError("w1") \/ Uncaught("w1") \/ UncaughtError("w1")

SpecNest == Init /\ [][NextNest]_vars

\* ---- SpecOrphan: two runner instances, the first of which may be shut
\* down wherever its tick is, with a store that may fail any call, while
\* KEYWORDS jobs are submitted and the provider answers every call.
Answers == { [outs |-> Always(Ok), t |-> MaxTok, text |-> JsonText] }

NextOrphan ==
  \/ Submit("A", [type |-> "KEYWORDS", title |-> FALSE, content |-> FALSE], 1, MaxJobs)
  \/ \E i \in Instances : Runner(i, Answers)
  \/ Sigint("w1")
  \/ Exit("w1")

SpecOrphan == Init /\ [][NextOrphan]_vars

\* ---- SpecAuth: register and login requests served by two handlers at once.
NextAuth ==
  \E r \in Handlers :
    \/ \E body \in RegisterBodies : RegisterFind(r, body)
    \/ RegisterSave(r)
    \/ \E body \in LoginBodies : Login(r, body)

SpecAuth == Init /\ [][NextAuth]_vars

\* ------------------------------------------------------------ properties
Terminal == {"SUCCEEDED", "FAILED"}

\* the payload of doc lacks title or content, for a type whose branch reads them
LacksArticle(doc) ==
  /\ doc.type \in {"SEO", "META", "IMAGE", "HASHTAGS"}
  /\ ~(doc.payload.title /\ doc.payload.content)

\* C1: of the runner instances that execute the claim against a PENDING job
\* one obtains it and the others do not: in every reachable state a job is
\* being processed by at most one instance, the one recorded in claimedBy,
\* and the job is RUNNING.
ClaimIsExclusive ==
  \A i \in Instances : job[i] # 0 =>
    /\ jobs[job[i]].status = "RUNNING"
    /\ jobs[job[i]].claimedBy = i
    /\ \A k \in Instances : job[k] = job[i] => k = i

\* both instances are processing, the second to claim having passed over the
\* older job the first one holds
ClaimIsExclusiveWitness ==
  \E i, k \in Instances :
    /\ i # k /\ job[i] # 0 /\ job[k] # 0
    /\ jobs[job[i]].createdAt < jobs[job[k]].createdAt
    /\ jobs[job[i]].status = "RUNNING" /\ jobs[job[k]].status = "RUNNING"

\* C2: whenever a claim returns job j (j goes from PENDING to RUNNING), no
\* job that was PENDING and claimable by that instance at that moment has an
\* earlier createdAt than j.
ClaimsInCreationOrder ==
  [][\A j \in Ids :
       (jobs[j].status = "PENDING" /\ jobs'[j].status = "RUNNING") =>
         \A k \in Ids :
           (/\ jobs[k].status = "PENDING"
            /\ jobs[k].claimedBy \in {"none", jobs'[j].claimedBy})
             => jobs[j].createdAt <= jobs[k].createdAt]_vars

\* a job was claimed while a younger job was waiting, which still waits
ClaimsInCreationOrderWitness ==
  \E j, k \in Ids :
    /\ jobs[j].status # "PENDING" /\ jobs[k].status = "PENDING"
    /\ jobs[j].createdAt < jobs[k].createdAt
    /\ jobs[k].createdAt <= jobs[j].claimedAt

\* C3: once a job is SUCCEEDED or FAILED no claim selects it: no step changes
\* the status, claimedBy or claimedAt of a terminal job, and no instance
\* starts to process one.
TerminalNeverClaimed ==
  [][\A j \in Ids : jobs[j].status \in Terminal =>
       /\ jobs'[j].status = jobs[j].status
       /\ jobs'[j].claimedBy = jobs[j].claimedBy
       /\ jobs'[j].claimedAt = jobs[j].claimedAt
       /\ \A i \in Instances : job'[i] = j => job[i] = j]_vars

\* an instance that brought a job to a terminal status, and so is named in
\* its claimedBy, has claimed again and obtained another job
TerminalNeverClaimedWitness ==
  \E i \in Instances, j \in Ids :
    /\ jobs[j].status \in Terminal /\ jobs[j].claimedBy = i
    /\ job[i] # 0 /\ job[i] # j

\* C4: every status change of a job is PENDING to RUNNING, RUNNING to
\* SUCCEEDED or RUNNING to FAILED.
StatusTransitions ==
  [][\A j \in Ids : jobs'[j].status # jobs[j].status =>
       <<jobs[j].status, jobs'[j].status>> \in
         { <<"PENDING", "RUNNING">>, <<"RUNNING", "SUCCEEDED">>,
           <<"RUNNING", "FAILED">> }]_vars

\* one job went all the way to SUCCEEDED and another to FAILED
StatusTransitionsWitness ==
  \E j, k \in Ids : jobs[j].status = "SUCCEEDED" /\ jobs[k].status = "FAILED"

\* C5: for a job claimed with attempt = 0 every pass of the loop that gets
\* to the adapter invokes it once, so when the passes all raise (a transient
\* error every time in particular) the adapter has been invoked exactly
\* maxAttempts times when the loop is left, never more at any point, and the
\* FAILED update that follows records attempt = maxAttempts.
RetryBound ==
  /\ \A i \in Instances :
       /\ calls[i] <= maxAttempts
       /\ (pc[i] = "fail" /\ ~LacksArticle(jobs[job[i]])) => calls[i] = maxAttempts
       /\ (pc[i] = "fail" /\ lastErr[i].message = "transient") => calls[i] = maxAttempts
  /\ \A j \in Ids :
       jobs[j].error.type = "PROVIDER" =>
         jobs[j].status = "FAILED" /\ jobs[j].attempt = maxAttempts

\* a job FAILED by a transient provider error, with attempt = maxAttempts
RetryBoundWitness ==
  \E j \in Ids :
    /\ jobs[j].status = "FAILED" /\ jobs[j].attempt = maxAttempts
    /\ jobs[j].error.type = "PROVIDER" /\ jobs[j].error.message = "transient"

\* C6: a job whose payload lacks title or content is not retried: while it
\* is processed no backoff wait is made and no pass after the first starts.
PreconditionNotRetried ==
  \A i \in Instances : (job[i] # 0 /\ LacksArticle(jobs[job[i]])) =>
    /\ waits[i] = 0
    /\ pc[i] = "attempt" => a[i] = 0

\* C7: for a SEO, META, IMAGE or HASHTAGS job whose payload lacks title or
\* content the adapter is not invoked (and no provider call is made) at any
\* point from the claim to the terminal write.
NoCallWithoutArticle ==
  \A i \in Instances : (job[i] # 0 /\ LacksArticle(jobs[job[i]])) =>
    calls[i] = 0 /\ spent[i] = 0 /\ pc[i] # "save"

\* the passes of such a job are over, the FAILED update is about to be made
NoCallWithoutArticleWitness ==
  \E i \in Instances :
    /\ pc[i] = "fail" /\ lastErr[i].message = "precondition"
    /\ LacksArticle(jobs[job[i]]) /\ calls[i] = 0

\* C8: a job's tokensUsed is never negative and never lower than it was.
TokensNeverDecrease ==
  [][\A j \in DOMAIN jobs' :
       /\ jobs'[j].tokensUsed >= 0
       /\ j \in Ids => jobs'[j].tokensUsed >= jobs[j].tokensUsed]_vars

\* a job whose tokensUsed was added to
TokensNeverDecreaseWitness ==
  \E j \in Ids : jobs[j].status = "SUCCEEDED" /\ jobs[j].tokensUsed > 0

\* C9: every provider call made for a job that returns text and a token
\* count adds that count to the job's tokensUsed: when the processing of a
\* job ends, its tokensUsed has grown by the counts of all those calls.
TokensCountEveryCall ==
  [][\A i \in Instances : (job[i] # 0 /\ job'[i] = 0) =>
       jobs'[job[i]].tokensUsed = spent[i]]_vars

\* C10: GET /jobs/:id by a principal other than the job's userId is answered
\* 404 with the not-found body and no field of the job, whatever the job's
\* status; a 200 with the job view goes to the owner only.
OwnershipScoping ==
  http.op = "query" /\ http.who \in Users /\ http.id \in Ids =>
    /\ jobs[http.id].userId # http.who =>
         http.status = 404 /\ http.body = [error |-> "Job not found"]
    /\ http.status = 200 => jobs[http.id].userId = http.who

\* a principal asked for the other principal's SUCCEEDED job and got 404
OwnershipScopingWitness ==
  /\ http.op = "query" /\ http.who \in Users /\ http.id \in Ids
  /\ jobs[http.id].userId # http.who
  /\ jobs[http.id].status = "SUCCEEDED"
  /\ http.status = 404

\* the request r was for an id that names no job, or a job of another principal
Hidden(r) == r.id \notin Ids \/ jobs[r.id].userId # r.who

\* C11: for one principal and well-formed ids, the answer to a query for a
\* job that exists but belongs to someone else is the same, status and body,
\* as the answer to a query for an id that names no job: of two queries in a
\* row by the same principal, each for a job that is absent or not the
\* principal's, the second gets the answer the first got.
AbsenceIndistinguishable ==
  [][(/\ http.op = "query" /\ http'.op = "query"
      /\ http.who \in Users /\ http'.who = http.who
      /\ http.id # Malformed /\ http'.id # Malformed
      /\ Hidden(http) /\ Hidden(http'))
       => http'.status = http.status /\ http'.body = http.body]_vars

\* a principal was answered not-found for another principal's RUNNING job,
\* in a store where id 2 names no job
AbsenceIndistinguishableWitness ==
  /\ http.op = "query" /\ http.who \in Users /\ http.id \in Ids
  /\ jobs[http.id].userId # http.who
  /\ http.status = 404 /\ http.body = [error |-> "Job not found"]
  /\ 2 \notin Ids /\ jobs[http.id].status = "RUNNING"

\* C12: in every reachable state a job has a result only if it is SUCCEEDED,
\* an error only if it is FAILED, and never both a result and an error.
ResultErrorExclusive ==
  \A j \in Ids :
    /\ jobs[j].result # "none" => jobs[j].status = "SUCCEEDED"
    /\ jobs[j].error # NoError => jobs[j].status = "FAILED"
    /\ ~(jobs[j].result # "none" /\ jobs[j].error # NoError)

\* one job carries a result and another an error
ResultErrorExclusiveWitness ==
  \E j, k \in Ids :
    /\ jobs[j].result # "none" /\ jobs[j].error = NoError
    /\ jobs[k].error # NoError /\ jobs[k].result = "none"

\* C13: in every reachable state a job's attempt is between 0 and
\* maxAttempts inclusive.
AttemptBounded ==
  \A j \in Ids : 0 <= jobs[j].attempt /\ jobs[j].attempt <= maxAttempts

\* a job that succeeded on the last pass allowed: attempt = maxAttempts
AttemptBoundedWitness ==
  \E j \in Ids : jobs[j].status = "SUCCEEDED" /\ jobs[j].attempt = maxAttempts

\* C14, as stated: a submit whose type is not one of KEYWORDS, ARTICLE, SEO,
\* META, IMAGE, HASHTAGS is answered 400 with the supported set and inserts
\* no job.
UnlistedTypeRejected ==
  [][\A r \in FewRequests :
       (Submit(r.who, r.body, 1, MaxJobs) /\ r.body.type \notin ALLOWED_TYPES) =>
         /\ http'.status = 400
         /\ "supported" \in DOMAIN http'.body
         /\ http'.body.supported = ALLOWED_TYPES
         /\ jobs' = jobs]_vars

\* C14, amended: a submit whose type, converted to upper case (a missing type
\* counting as the empty string), is not one of the six is answered 400 with
\* the unsupported-type error listing the supported set, and inserts no job.
UnsupportedTypeRejected ==
  [][\A r \in FewRequests :
       (Submit(r.who, r.body, 1, MaxJobs)
          /\ toUpperCase(r.body.type) \notin ALLOWED_TYPES) =>
         /\ http'.status = 400
         /\ http'.body.error = "Unsupported AI job type"
         /\ "supported" \in DOMAIN http'.body
         /\ http'.body.supported = ALLOWED_TYPES
         /\ jobs' = jobs]_vars

\* a submit of type VIDEO was answered 400 while the store held a job
UnsupportedTypeRejectedWitness ==
  /\ http.op = "submit" /\ http.status = 400
  /\ http.body.received = "VIDEO" /\ Len(jobs) >= 1

\* C15: a submit with a supported type and a resolved principal inserts
\* exactly one job, with status PENDING, attempt 0, the principal as userId
\* and the body's fields other than type as payload, leaves the other jobs
\* as they were, answers with the new job's id, and makes no generation call.
SubmitInsertsPending ==
  [][\A r \in FewRequests :
       (/\ Submit(r.who, r.body, 1, MaxJobs)
        /\ r.who \in Users
        /\ toUpperCase(r.body.type) \in ALLOWED_TYPES) =>
         /\ Len(jobs') = Len(jobs) + 1
         /\ \A j \in Ids : jobs'[j] = jobs[j]
         /\ jobs'[Len(jobs')].status = "PENDING"
         /\ jobs'[Len(jobs')].attempt = 0
         /\ jobs'[Len(jobs')].userId = r.who
         /\ jobs'[Len(jobs')].payload =
              [title |-> r.body.title, content |-> r.body.content]
         /\ http'.status = 201 /\ http'.body = [id |-> Len(jobs')]
         /\ calls' = calls /\ spent' = spent]_vars

\* a second job was just inserted, still PENDING, its id returned
SubmitInsertsPendingWitness ==
  /\ http.op = "submit" /\ http.status = 201
  /\ Len(jobs) >= 2 /\ http.id = Len(jobs)
  /\ jobs[http.id].status = "PENDING" /\ jobs[http.id].attempt = 0
  /\ jobs[http.id].userId = http.who

\* C16: every job that enters RUNNING eventually reaches SUCCEEDED or FAILED,
\* given that provider calls return and backoff waits end: no job remains
\* RUNNING forever.
RunningEnds ==
  \A j \in 1..MaxJobs :
    (j \in Ids /\ jobs[j].status = "RUNNING")
      ~> (j \in Ids /\ jobs[j].status \in Terminal)

\* C17: with a runner that keeps ticking and ticks that finish, every
\* PENDING job is eventually claimed, also while newer jobs are submitted,
\* and it is never passed over for a job created after it.
NoStarvation ==
  /\ \A j \in 1..MaxJobs :
       (j \in Ids /\ jobs[j].status = "PENDING")
         ~> (j \in Ids /\ jobs[j].status # "PENDING")
  /\ [][\A j, k \in Ids :
          (/\ jobs[j].status = "PENDING" /\ jobs'[j].status = "PENDING"
           /\ jobs[k].status = "PENDING" /\ jobs'[k].status # "PENDING")
            => jobs[k].createdAt <= jobs[j].createdAt]_vars

\* the oldest job was claimed while a newer one waited, and the newer one
\* has been claimed in its turn
NoStarvationWitness ==
  \E j, k \in Ids :
    /\ jobs[j].createdAt < jobs[k].createdAt
    /\ jobs[j].status \in Terminal /\ jobs[k].status = "RUNNING"
    /\ jobs[k].createdAt <= jobs[j].claimedAt

\* C18: on SIGINT a tick in flight is allowed to finish, so that its claimed
\* job reaches a terminal state, before the store connection is closed and
\* the process exits: a process whose connection is closed holds no job
\* that is not terminal.
ShutdownDrains ==
  \A i \in Instances :
    (proc[i] # "up" /\ job[i] # 0) => jobs[job[i]].status \in Terminal

\* Some part of the text is valid JSON.
HoldsJson(text) ==
  \E x \in 1..Len(text) : \E y \in x..Len(text) : JSONparse(SubSeq(text, x, y)).ok

\* C19: parseJSONResponse accepts valid JSON wrapped in a code fence (with or
\* without the json tag) and returns that JSON; it accepts prose followed by a
\* JSON object and returns the object; and on a text that holds no JSON it
\* fails, every failure carrying the original text and the parse failure
\* message.
ParseAcceptsWrappedJson ==
  io.op = "parseJSONResponse" =>
    LET text == io.in
        out == io.out
        n == Len(text)
    IN  /\ (/\ n >= 3 /\ text[1] \in {"F", "E"} /\ text[n] = "E"
             /\ JSONparse(SubSeq(text, 2, n - 1)).ok)
            => (out.ok /\ out.data = SubSeq(text, 2, n - 1))
        /\ \A x \in 1..(n - 1) :
             (/\ \A y \in 1..x : text[y] = "w"
              /\ IsObject(SubSeq(text, x + 1, n)))
             => (out.ok /\ out.data = SubSeq(text, x + 1, n))
        /\ ~HoldsJson(text) => ~out.ok
        /\ ~out.ok => (out.rawText = text /\ out.parseError = "SyntaxError")

\* C20: a typed operation given a well-formed response that lacks any of the
\* expected fields, fields of list elements included, never throws, and its
\* result has a default in the place of every missing field.
SparseResponseNeverThrows ==
  io.op \in TypedOps =>
    /\ ~io.out.threw
    /\ \A f \in ExpectedFields(io.op) \ {ListField(io.op)} :
         io.out.result[f] = Pick(io.in, f)
    /\ io.op = "generateKeywords" =>
         \A x \in 1..Len(io.out.result.keywords) : \A f \in KeywordFields :
           io.out.result.keywords[x][f] = "default" <=> f \notin io.in.items[x].has

\* C21: no step changes the userId, type or payload of a job, and no step
\* removes a job: each job keeps the values it was submitted with through
\* the claim and the SUCCEEDED, FAILED and WORKER_UNCAUGHT writes.
SubmittedFieldsKept ==
  [][\A j \in Ids :
       /\ j \in DOMAIN jobs'
       /\ jobs'[j].userId = jobs[j].userId
       /\ jobs'[j].type = jobs[j].type
       /\ jobs'[j].payload = jobs[j].payload]_vars

\* a job went through the claim and the SUCCEEDED write, another, submitted
\* with content, through the claim and the WORKER_UNCAUGHT write
SubmittedFieldsKeptWitness ==
  \E j, k \in Ids :
    /\ jobs[j].status = "SUCCEEDED" /\ jobs[j].type = "KEYWORDS" /\ jobs[j].userId = "A"
    /\ jobs[k].error.type = "WORKER_UNCAUGHT" /\ jobs[k].type = "SEO"
    /\ jobs[k].payload.content /\ jobs[k].userId = "A"

\* C22: every register request with a valid payload is answered either 201
\* with a token and a user carrying the submitted email (in lower case) and
\* username, one new user being stored, or 409 with the error saying the user
\* exists, no user being stored, whatever other register requests are served
\* at the same time.
RegisterOutcomes ==
  [][\A r \in Handlers :
       (/\ reqs'[r] # reqs[r] /\ reqs'[r].pc = "done"
        /\ reqs'[r].op = "register" /\ registerSchema(reqs'[r].in)) =>
         \/ /\ reqs'[r].status = 201
            /\ "token" \in DOMAIN reqs'[r].out
            /\ reqs'[r].out.user.email = toLowerCase(reqs'[r].in.email)
            /\ reqs'[r].out.user.username = reqs'[r].in.username
            /\ Len(users') = Len(users) + 1
         \/ /\ reqs'[r].status = 409
            /\ reqs'[r].out = [error |-> "User already exists"]
            /\ users' = users]_vars

\* A register request for this email and password has succeeded: its user is stored.
Registered(email, password) ==
  \E u \in DOMAIN users :
    users[u].email = toLowerCase(email) /\ users[u].password = hash(password)

\* C23, as stated: a login with the email and password of a register request
\* that succeeded is answered 200 with a token and the user of that email;
\* any other login (unknown email, wrong password) is answered 401 without a
\* token.
LoginOutcomesAsStated ==
  [][\A r \in Handlers :
       (reqs'[r] # reqs[r] /\ reqs'[r].pc = "done" /\ reqs'[r].op = "login") =>
         IF Registered(reqs'[r].in.email, reqs'[r].in.password)
           THEN /\ reqs'[r].status = 200
                /\ "token" \in DOMAIN reqs'[r].out
                /\ reqs'[r].out.user.email = toLowerCase(reqs'[r].in.email)
           ELSE /\ reqs'[r].status = 401
                /\ "token" \notin DOMAIN reqs'[r].out]_vars

\* C23, amended: of the logins whose payload is valid (an e-mail address, a
\* password of 8 characters or more), the one with the email and password of
\* a register request that succeeded is answered 200 with a token and the
\* user of that email, and any other is answered 401 without a token; a
\* login whose payload is not valid is answered 400 without a token.
LoginOutcomes ==
  [][\A r \in Handlers :
       (reqs'[r] # reqs[r] /\ reqs'[r].pc = "done" /\ reqs'[r].op = "login") =>
         IF ~loginSchema(reqs'[r].in)
           THEN /\ reqs'[r].status = 400
                /\ "token" \notin DOMAIN reqs'[r].out
         ELSE IF Registered(reqs'[r].in.email, reqs'[r].in.password)
           THEN /\ reqs'[r].status = 200
                /\ "token" \in DOMAIN reqs'[r].out
                /\ reqs'[r].out.user.email = toLowerCase(reqs'[r].in.email)
           ELSE /\ reqs'[r].status = 401
                /\ "token" \notin DOMAIN reqs'[r].out]_vars

\* with two users stored, one login got 200 and a token, and a login with
\* that user's email and the other user's password got 401
LoginOutcomesWitness ==
  /\ Len(users) = 2
  /\ reqs["h1"].pc = "done" /\ reqs["h1"].op = "login" /\ reqs["h1"].status = 200
  /\ reqs["h2"].pc = "done" /\ reqs["h2"].op = "login" /\ reqs["h2"].status = 401
  /\ reqs["h2"].in.email = reqs["h1"].in.email
  /\ \E u \in DOMAIN users : users[u].password = hash(reqs["h2"].in.password)

\* C24: within one runner instance at most one claim-and-process cycle is
\* active: an instance is busy exactly while a cycle of its is under way, a
\* job is claimed for it only by the claim of that cycle, before it has a
\* job, and once it has one no step replaces it or makes a provider call
\* outside the passes for that job: a tick that fires while busy reaches
\* neither the store nor the provider.
SingleFlight ==
  [][\A i \in Instances :
       /\ busy[i] <=> pc[i] # "idle"
       /\ job[i] # 0 => busy[i]
       /\ busy[i] =>
            /\ job[i] # 0 => job'[i] \in {job[i], 0}
            /\ \A j \in Ids : (jobs[j].status = "PENDING" /\ jobs'[j].status = "RUNNING"
                                /\ jobs'[j].claimedBy = i)
                               => pc[i] = "claim" /\ job[i] = 0 /\ job'[i] \in {j, 0}
            /\ calls'[i] > calls[i] => pc[i] = "attempt"]_vars

\* an instance is busy with the older job while a newer job is PENDING and
\* would match its claim
SingleFlightWitness ==
  \E i \in Instances, j \in Ids :
    /\ busy[i] /\ job[i] # 0 /\ job[i] # j /\ calls[i] > 0
    /\ ClaimFilter(jobs[j], i)

\* C25: when a tick completes, whatever its outcome (no job found, success,
\* attempts exhausted, an exception), busy is false; and with ticks that go
\* on, busy is never left true forever: a busy runner is eventually not busy.
BusyReleased ==
  /\ [][\A i \in Instances : pc'[i] = "idle" => ~busy'[i]]_vars
  /\ \A i \in Instances : busy[i] ~> ~busy[i]

\* a tick ended by exceptions: its job is still RUNNING, the runner is idle
\* and not busy
BusyReleasedWitness ==
  \E j \in Ids :
    /\ jobs[j].status = "RUNNING" /\ jobs[j].claimedBy = "w1"
    /\ pc["w1"] = "idle" /\ ~busy["w1"] /\ job["w1"] = 0

\* C26: when an exception leaves the retry loop of a tick that has claimed a
\* job (the FAILED write throws), the runner makes one attempt to write that
\* job FAILED with error.type = WORKER_UNCAUGHT and the tick ends: the write
\* is applied to that job alone, or it fails and nothing is written.  A tick
\* that has claimed no job writes nothing: the error and the terminal status
\* of a job are written only by the instance that holds it.
UncaughtMarksFailed ==
  [][/\ \A i \in Instances :
          /\ (pc[i] = "fail" /\ pc'[i] = "uncaught") =>
               job[i] # 0 /\ job'[i] = job[i] /\ jobs' = jobs
          /\ (pc[i] = "uncaught" /\ pc'[i] # "uncaught") =>
               /\ pc'[i] = "idle"
               /\ \/ jobs' = jobs
                  \/ /\ jobs'[job[i]].status = "FAILED"
                     /\ jobs'[job[i]].error.type = "WORKER_UNCAUGHT"
                     /\ \A j \in Ids \ {job[i]} : jobs'[j] = jobs[j]
     /\ \A j \in Ids :
          (jobs'[j].error # jobs[j].error \/ jobs'[j].status \notin {jobs[j].status, "RUNNING"})
            => \E i \in Instances : job[i] = j /\ jobs[j].claimedBy = i]_vars

\* a job marked FAILED by the write of the outer catch, after its FAILED
\* write threw
UncaughtMarksFailedWitness ==
  \E j \in Ids :
    /\ jobs[j].status = "FAILED"
    /\ jobs[j].error.type = "WORKER_UNCAUGHT" /\ jobs[j].error.message = "store"

\* C27: no failure inside a tick crosses the polling-loop boundary: no tick
\* ends in a rejection of processOne, whether the claim, a terminal write or
\* the WORKER_UNCAUGHT write fails, and after every tick the next tick is
\* able to start.
TickNeverRaises ==
  \A i \in Instances :
    /\ proc[i] # "rejected"
    /\ (proc[i] = "up" /\ pc[i] = "idle") => ENABLED Tick(i)

\* the FAILED write and the WORKER_UNCAUGHT write of a tick both failed, its
\* job is still RUNNING, and a later tick has claimed the next job
TickNeverRaisesWitness ==
  \E j, k \in Ids :
    /\ j # k /\ jobs[j].status = "RUNNING" /\ jobs[j].claimedBy = "w1"
    /\ job["w1"] = k /\ jobs[k].claimedAt > jobs[j].claimedAt

\* C28: when the claim call of a tick fails, the tick is over at once: no
\* job has been claimed or changed by it, no write follows, busy is released
\* and the runner is idle, so that the next tick starts with the claim again.
ClaimFailureAborts ==
  [][\A i \in Instances :
       (pc[i] = "claim" /\ ClaimError(i)) =>
         /\ jobs' = jobs
         /\ job'[i] = 0 /\ pc'[i] = "idle" /\ ~busy'[i]
         /\ proc'[i] = proc[i]]_vars

\* a tick has sent its claim while a PENDING job matches it, after an
\* earlier tick left its job RUNNING
ClaimFailureAbortsWitness ==
  /\ pc["w1"] = "claim" /\ busy["w1"] /\ job["w1"] = 0
  /\ \E j \in Ids : ClaimFilter(jobs[j], "w1")
  /\ \E k \in Ids : jobs[k].status = "RUNNING"

\* C29: withRetry makes one call and rethrows when the call raises an error
\* that is not transient; on a transient error (429, a code of 500 or more,
\* timeout, connection reset, abort) it sleeps base * 2^i and calls again,
\* until a call succeeds or the attempt ceiling is reached, and then throws
\* the error of the last call.
RetryPolicy ==
  io.op = "withRetry" =>
    LET outs == io.in.outs
        attempts == io.in.attempts
        r == io.out
        transient(e) ==
          e.code = 429 \/ e.code >= 500 \/ e.message \in {"etimedout", "econnreset", "abort"}
        stops(k) == outs[k].ok \/ ~transient(outs[k]) \/ k = attempts
        last == CHOOSE k \in 1..attempts : stops(k) /\ \A m \in 1..(k - 1) : ~stops(m)
    IN  /\ r.n = last
        /\ r.ok <=> outs[last].ok
        /\ ~r.ok => r.err = outs[last]
        /\ DOMAIN r.delays = 1..(last - 1)
        /\ \A k \in DOMAIN r.delays : r.delays[k] = DEFAULT_RETRY_BASE_MS * 2^(k - 1)

\* two rate-limited calls, each followed by its sleep, then a malformed
\* request on the third call, which is thrown
RetryPolicyWitness ==
  /\ io.op = "withRetry" /\ io.in.attempts = DEFAULT_RETRY_ATTEMPTS
  /\ io.in.outs[1].code = 429 /\ io.in.outs[2].message = "abort" /\ io.in.outs[2].code = 0
  /\ io.out.n = 3 /\ ~io.out.ok /\ io.out.err = Fatal
  /\ io.out.delays = <<DEFAULT_RETRY_BASE_MS, 2 * DEFAULT_RETRY_BASE_MS>>

\* C30: a generateText call is bounded by the timeout: no request to the
\* provider stays in flight past it, a request in flight when the timer
\* fires is cancelled there and then, and the error it fails with is a
\* transient one, which withRetry treats as such.
TimeoutCancels ==
  [][(io.op = "generateText" /\ io.pc = "call") =>
       /\ io'.clock > io.clock => io'.clock <= DEFAULT_TIMEOUT_MS
       /\ io.timer = "fired" =>
            /\ io'.pc # "call"
            /\ io'.clock = io.clock
            /\ ~io'.ok
            /\ io'.lastErr.message \in {"etimedout", "econnreset", "abort"}
            /\ io.i < DEFAULT_RETRY_ATTEMPTS - 1 => io'.pc = "sleep"]_vars

\* the first request hung until the timer fired and was cancelled;
\* withRetry sleeps before its second call
TimeoutCancelsWitness ==
  /\ io.op = "generateText" /\ io.pc = "sleep" /\ io.i = 0
  /\ io.timer = "fired" /\ io.clock = DEFAULT_TIMEOUT_MS
  /\ io.lastErr = AbortError

\* C31: a pass whose provider response cannot be parsed is a failed pass like
\* any other: the error is kept, the backoff is waited, and the next pass
\* runs while passes remain; when the passes end on such an error the FAILED
\* update records the parse error's message and, for a response that is not
\* empty, its text (up to MAX_RAW_SNIPPET characters) as the raw snippet.
ParseFailureRetried ==
  [][\A i \in Instances :
       /\ (pc[i] = "attempt" /\ lastErr'[i].message = "JSON_PARSE_FAILED"
            /\ calls'[i] = calls[i] + 1 /\ pc'[i] # "save") =>
            /\ waits'[i] = waits[i] + 1
            /\ a'[i] = a[i] + 1
            /\ pc'[i] = IF a[i] + 1 < maxAttempts THEN "attempt" ELSE "fail"
            /\ jobs' = jobs
       /\ (pc[i] = "fail" /\ lastErr[i].message = "JSON_PARSE_FAILED"
            /\ jobs'[job[i]].status = "FAILED") =>
            LET e == jobs'[job[i]].error
                text == lastErr[i].rawText
            IN  /\ e.type = "PROVIDER" /\ e.message = "JSON_PARSE_FAILED"
                /\ e.parseError = "SyntaxError"
                /\ jobs'[job[i]].attempt = maxAttempts
                /\ text # <<>> =>
                     e.rawSnippet = SubSeq(text, 1, IF Len(text) < MAX_RAW_SNIPPET
                                                     THEN Len(text) ELSE MAX_RAW_SNIPPET)]_vars

\* a job FAILED after a last pass whose response was prose
ParseFailureRetriedWitness ==
  \E j \in Ids :
    /\ jobs[j].status = "FAILED" /\ jobs[j].error.message = "JSON_PARSE_FAILED"
    /\ jobs[j].error.rawSnippet = <<"w">> /\ jobs[j].error.parseError = "SyntaxError"
    /\ jobs[j].attempt = maxAttempts

\* C32: when the passes of a job have all failed, the update the runner
\* sends sets status FAILED, attempt = maxAttempts and an error record made
\* from the last error: type PROVIDER, a code, the provider name, the
\* error's message, and a raw snippet of at most MAX_RAW_SNIPPET characters.
FailedRecord ==
  [][\A i \in Instances :
       /\ pc'[i] = "fail" => (a'[i] = maxAttempts /\ lastErr'[i] # NoErr)
       /\ (pc[i] = "fail" /\ jobs' # jobs) =>
            LET j == job[i]
                e == jobs'[j].error
            IN  /\ \A k \in Ids \ {j} : jobs'[k] = jobs[k]
                /\ jobs'[j].status = "FAILED"
                /\ jobs'[j].attempt = maxAttempts
                /\ e.type = "PROVIDER"
                /\ e.code \in {lastErr[i].code, "AI_CALL_FAILED"} /\ e.code # "none"
                /\ e.provider = "gemini"
                /\ e.message = lastErr[i].message /\ e.message # "none"
                /\ Len(e.rawSnippet) <= MAX_RAW_SNIPPET
                /\ \A x \in 1..Len(e.rawSnippet) :
                     e.rawSnippet[x] = (IF lastErr[i].rawText # <<>> THEN lastErr[i].rawText
                                        ELSE lastErr[i].stack)[x]]_vars

\* a job FAILED on a response of MAX_RAW_SNIPPET + 1 characters of prose,
\* of which the record keeps MAX_RAW_SNIPPET
FailedRecordWitness ==
  \E j \in Ids :
    /\ jobs[j].status = "FAILED" /\ jobs[j].attempt = maxAttempts
    /\ jobs[j].error.type = "PROVIDER"
    /\ Len(jobs[j].error.rawSnippet) = MAX_RAW_SNIPPET

\* C33: when the pass with index a has generated a result and its update is
\* applied, that one update sets status SUCCEEDED, the result, the model and
\* attempt = a + 1 and adds the tokens of the call to tokensUsed; the tick
\* ends there, and the job is never written again nor held by a runner.
SucceededStops ==
  [][/\ \A i \in Instances :
          (pc[i] = "save" /\ jobs' # jobs) =>
            LET j == job[i]
            IN  /\ jobs'[j] = [jobs[j] EXCEPT !.status = "SUCCEEDED", !.result = "result",
                                              !.model = "gemini", !.attempt = a[i] + 1,
                                              !.tokensUsed = jobs[j].tokensUsed + gen[i]]
                /\ \A k \in Ids \ {j} : jobs'[k] = jobs[k]
                /\ pc'[i] = "idle" /\ job'[i] = 0 /\ ~busy'[i]
     /\ \A j \in Ids : jobs[j].status = "SUCCEEDED" =>
          /\ jobs'[j] = jobs[j]
          /\ \A i \in Instances : job[i] # j /\ job'[i] # j]_vars

\* a job SUCCEEDED by its second pass, with the tokens of that pass
SucceededStopsWitness ==
  \E j \in Ids :
    /\ jobs[j].status = "SUCCEEDED" /\ jobs[j].attempt = 2
    /\ jobs[j].tokensUsed = MaxTok /\ jobs[j].result = "result"
    /\ \A i \in Instances : pc[i] = "idle"

\* C34: the job a claim of instance i selects was PENDING with claimedBy
\* absent or equal to i, never with the id of another instance, and after
\* the claim its claimedBy is i; the claim changes no other document.
ClaimSelectsOwnOrFree ==
  [][/\ \A i \in Instances :
          (job[i] = 0 /\ job'[i] # 0) =>
            LET j == job'[i]
            IN  /\ jobs[j].status = "PENDING"
                /\ jobs[j].claimedBy \in {"none", i}
                /\ jobs'[j].claimedBy = i /\ jobs'[j].status = "RUNNING"
     /\ \A k \in Ids :
          jobs'[k] # jobs[k] => \E i \in Instances : job[i] = 0 /\ job'[i] = k]_vars

\* w1 has claimed the second document although the first is older and
\* PENDING, the first carrying the id of w2
ClaimSelectsOwnOrFreeWitness ==
  /\ Len(jobs) >= 2 /\ job["w1"] = 2 /\ jobs[2].claimedBy = "w1"
  /\ jobs[1].status = "PENDING" /\ jobs[1].claimedBy = "w2"
  /\ jobs[1].createdAt < jobs[2].createdAt

\* C35: the score of an SEO result lies in 0..100: a number below 0 gives 0,
\* a number above 100 gives 100, and a score that is missing or not a number
\* gives 75.
ScoreClamped ==
  io.op = "seoScore" =>
    /\ io.out \in 0..100
    /\ (io.in.type = "number" /\ io.in.n < 0) => io.out = 0
    /\ (io.in.type = "number" /\ io.in.n > 100) => io.out = 100
    /\ io.in.type # "number" => io.out = 75

\* a score of -1 has become 0
ScoreClampedWitness ==
  io.op = "seoScore" /\ io.in.type = "number" /\ io.in.n = 0 - 1 /\ io.out = 0

\* C36: a job has claimedBy set exactly when its status is not PENDING, and
\* no step clears or changes a claimedBy that is set; so no PENDING job
\* carries an instance id, and the filter's branch claimedBy = own id
\* matches no job.
ClaimedIffNotPending ==
  \A j \in Ids :
    /\ jobs[j].claimedBy \in Instances <=> jobs[j].status # "PENDING"
    /\ jobs[j].claimedBy \in Instances \cup {"none"}
    /\ \A i \in Instances : ~(jobs[j].status = "PENDING" /\ jobs[j].claimedBy = i)

\* a job that failed keeps the id of its instance beside one still unclaimed
ClaimedIffNotPendingWitness ==
  \E j, k \in Ids :
    /\ jobs[j].status = "FAILED" /\ jobs[j].claimedBy = "w2"
    /\ jobs[k].status = "PENDING" /\ jobs[k].claimedBy = "none"

\* C37: the retry loops nest: the generateContent calls made for one job
\* are at most maxAttempts * DEFAULT_RETRY_ATTEMPTS, and they are exactly
\* that many once the passes of a job are over with every one of its
\* generateContent calls ended in a transient error.
SdkCallsNest ==
  /\ SdkCount.n <= maxAttempts * DEFAULT_RETRY_ATTEMPTS
  /\ \A i \in Instances :
       (pc[i] = "fail" /\ SdkCount.n > 0 /\ SdkCount.t = SdkCount.n) =>
         SdkCount.n = maxAttempts * DEFAULT_RETRY_ATTEMPTS

\* three passes of three transient failures each are over
SdkCallsNestWitness ==
  /\ pc["w1"] = "fail" /\ calls["w1"] = maxAttempts
  /\ SdkCount.n = maxAttempts * DEFAULT_RETRY_ATTEMPTS
  /\ SdkCount.t = maxAttempts * DEFAULT_RETRY_ATTEMPTS

RunningNeverReclaimed ==
  [][/\ \A i \in Instances :
          (job'[i] # 0 /\ job'[i] # job[i]) =>
            /\ job[i] = 0
            /\ jobs[job'[i]].status = "PENDING"
     /\ \A k \in Ids :
          /\ (jobs[k].status = "RUNNING" /\ jobs'[k] # jobs[k]) =>
               \E i \in Instances :
                 /\ job[i] = k /\ jobs[k].claimedBy = i /\ Connected(i)
                 /\ jobs'[k].status \in {"SUCCEEDED", "FAILED"}
          /\ (jobs[k].status = "RUNNING"
                /\ \A i \in Instances : job[i] # k \/ ~Connected(i)) =>
               /\ jobs'[k] = jobs[k]
               /\ \A i \in Instances : job'[i] # k \/ ~Connected(i)']_vars

\* the first job is RUNNING for w1, which has exited, and w2 has meanwhile
\* claimed and finished the second
RunningNeverReclaimedWitness ==
  /\ Len(jobs) >= 2
  /\ jobs[1].status = "RUNNING" /\ jobs[1].claimedBy = "w1" /\ proc["w1"] = "exited"
  /\ jobs[2].status = "SUCCEEDED" /\ jobs[2].claimedBy = "w2"
  /\ pc["w2"] = "idle"

\* C40: one abort timer serves all retries of a generateText call: once it
\* has fired the signal stays aborted and the timer is never armed again,
\* every later call of exec is rejected with the abort error at once (no time
\* passes, no response is returned), the call ends with the abort error, and
\* exec is called at most DEFAULT_RETRY_ATTEMPTS times in all.
OneTimerForAllRetries ==
  [][io.op = "generateText" =>
       /\ io'.i < DEFAULT_RETRY_ATTEMPTS
       /\ io'.i \in {io.i, io.i + 1}
       /\ io.timer # "armed" => io'.timer # "armed"
       /\ io.aborted =>
            /\ io'.aborted
            /\ ~io'.ok
            /\ io.pc = "call" =>
                 (io'.pc # "call" /\ io'.clock = io.clock /\ io'.lastErr = AbortError)
            /\ io'.pc = "done" =>
                 (io'.lastErr = AbortError /\ io'.i = DEFAULT_RETRY_ATTEMPTS - 1)
            /\ (io.pc = "call" /\ io.i < DEFAULT_RETRY_ATTEMPTS - 1) => io'.pc = "sleep"]_vars

\* the timer fired during the first request; the second and the third call
\* were rejected at once, and the call has ended with the abort error
OneTimerForAllRetriesWitness ==
  /\ io.op = "generateText" /\ io.pc = "done" /\ ~io.ok
  /\ io.aborted /\ io.i = DEFAULT_RETRY_ATTEMPTS - 1
  /\ io.lastErr = AbortError
  /\ io.clock = DEFAULT_TIMEOUT_MS + Backoff(DEFAULT_RETRY_BASE_MS, 0) + Backoff(DEFAULT_RETRY_BASE_MS, 1)

====
